---------------------------- MODULE Spec2Model ----------------------------
(***************************************************************************)
(* A model of picopypi's build-gap resolution: loading the release feed    *)
(* (releases.parse, render.load_from_github_api), building the             *)
(* satisfaction index (expand_wheels), resolving the gaps                  *)
(* (gather_build_infos), grouping them (group_builds) and the build        *)
(* command's run.                                                          *)
(*                                                                         *)
(* Python strings are modelled as sequences of one-character strings, so   *)
(* that slicing, startswith/endswith, split, rpartition and int() are      *)
(* computed the way the code computes them.                                *)
(***************************************************************************)
EXTENDS Integers, Sequences, FiniteSets, TLC

(***************************************************************************)
(* Strings                                                                 *)
(***************************************************************************)

\* The characters the model's strings use, in code-point order.
Alphabet ==
    << "-", ".", "/", "0", "1", "2", "3", "4", "5", "6", "7", "8", "9", ":",
       "_", "a", "b", "c", "d", "e", "f", "g", "h", "i", "j", "k", "l", "m",
       "n", "o", "p", "q", "r", "s", "t", "u", "v", "w", "x", "y", "z" >>

Ord(c) == CHOOSE i \in 1..Len(Alphabet) : Alphabet[i] = c

Digits == << "0", "1", "2", "3", "4", "5", "6", "7", "8", "9" >>

IsDecimal(c) == \E i \in 1..Len(Digits) : Digits[i] = c

DigitValue(c) == (CHOOSE i \in 1..Len(Digits) : Digits[i] = c) - 1

\* a[i:] < b[i:] for strings that agree before position i
RECURSIVE StrLtFrom(_, _, _)
StrLtFrom(a, b, i) ==
    IF i > Len(b) THEN FALSE
    ELSE IF i > Len(a) THEN TRUE
    ELSE IF a[i] = b[i] THEN StrLtFrom(a, b, i + 1)
    ELSE Ord(a[i]) < Ord(b[i])

\* str.__lt__: lexicographic by code point, a proper prefix sorting first.
StrLt(a, b) == StrLtFrom(a, b, 1)

\* s[n:]
From(s, n) == SubSeq(s, n + 1, Len(s))

\* s[:n]
Upto(s, n) == SubSeq(s, 1, IF n < Len(s) THEN n ELSE Len(s))

StartsWith(s, p) == Len(p) <= Len(s) /\ SubSeq(s, 1, Len(p)) = p

EndsWith(s, p) == Len(p) <= Len(s) /\ SubSeq(s, Len(s) - Len(p) + 1, Len(s)) = p

\* int(s) for a string of decimal digits; -1 stands for the ValueError that
\* int() raises on the empty string or on a non-digit.
RECURSIVE int(_)
int(s) ==
    IF s = <<>> \/ \E i \in 1..Len(s) : ~IsDecimal(s[i]) THEN -1
    ELSE IF Len(s) = 1 THEN DigitValue(s[1])
    ELSE 10 * int(SubSeq(s, 1, Len(s) - 1)) + DigitValue(s[Len(s)])

\* s.split(sep) for a one-character separator.
RECURSIVE Split(_, _)
Split(s, sep) ==
    IF \A i \in 1..Len(s) : s[i] # sep THEN << s >>
    ELSE LET i == CHOOSE k \in 1..Len(s) :
                      s[k] = sep /\ \A j \in 1..(k - 1) : s[j] # sep
         IN  << SubSeq(s, 1, i - 1) >> \o Split(From(s, i), sep)

\* s.rpartition(sep)[2]: the text after the last sep, all of s when there is none.
RPartitionTail(s, sep) ==
    IF \A i \in 1..Len(s) : s[i] # sep THEN s
    ELSE LET i == CHOOSE k \in 1..Len(s) :
                      s[k] = sep /\ \A j \in (k + 1)..Len(s) : s[j] # sep
         IN  From(s, i)

\* sep.join(parts)
RECURSIVE Join(_, _)
Join(parts, sep) ==
    IF parts = <<>> THEN <<>>
    ELSE IF Len(parts) = 1 THEN parts[1]
    ELSE parts[1] \o sep \o Join(Tail(parts), sep)

Range(s) == { s[i] : i \in 1..Len(s) }


(***************************************************************************)
(* packaging.version: versions of dotted decimal release segments          *)
(***************************************************************************)

\* The value that stands for packaging.version.InvalidVersion being raised.
InvalidVersion == << -1 >>

RECURSIVE StripZeros(_)
StripZeros(r) ==
    IF r # <<>> /\ r[Len(r)] = 0 THEN StripZeros(SubSeq(r, 1, Len(r) - 1)) ELSE r

\* packaging.version.parse(s), up to Version equality: the release segments
\* with the trailing zeros dropped ("1.0" and "1.0.0" parse to equal versions).
VersionParse(s) ==
    LET segs == Split(s, ".")
    IN  IF \E i \in 1..Len(segs) : int(segs[i]) = -1 THEN InvalidVersion
        ELSE StripZeros([i \in 1..Len(segs) |-> int(segs[i])])

RECURSIVE VersionLtFrom(_, _, _)
VersionLtFrom(a, b, i) ==
    IF i > Len(b) THEN FALSE
    ELSE IF i > Len(a) THEN TRUE
    ELSE IF a[i] = b[i] THEN VersionLtFrom(a, b, i + 1)
    ELSE a[i] < b[i]

\* Version.__lt__: the release tuples compared lexicographically.
VersionLt(a, b) == VersionLtFrom(a, b, 1)

(***************************************************************************)
(* picopypi.build: Abi and Target                                          *)
(***************************************************************************)

CP310 == << "c", "p", "3", "1", "0" >>
CP311 == << "c", "p", "3", "1", "1" >>
CP312 == << "c", "p", "3", "1", "2" >>
CP313 == << "c", "p", "3", "1", "3" >>
CP313T == << "c", "p", "3", "1", "3", "t" >>
CP314 == << "c", "p", "3", "1", "4" >>
CP314T == << "c", "p", "3", "1", "4", "t" >>

\* The values of the members of enum Abi.
Abi == { CP310, CP311, CP312, CP313, CP313T, CP314, CP314T }

\* value.endswith(("t", "m"))
EndsWithTM(value) == EndsWith(value, << "t" >>) \/ EndsWith(value, << "m" >>)

\* Abi.parts
PartsWithoutSpecial(value) ==
    LET minor0 == From(value, 3)
        minor == IF EndsWithTM(value) THEN SubSeq(minor0, 1, Len(minor0) - 1)
                 ELSE minor0
    IN  << Upto(value, 2), int(<< value[3] >>), int(minor), <<>> >>

parts(value) ==
    LET special == IF EndsWithTM(value) THEN << value[Len(value)] >> ELSE <<>>
        minor0 == From(value, 3)
        minor == IF EndsWithTM(value) THEN SubSeq(minor0, 1, Len(minor0) - 1)
                 ELSE minor0
    IN  << Upto(value, 2), int(<< value[3] >>), int(minor), special >>

\* Abi.__lt__: the parts tuples compared lexicographically.
AbiLt(a, b) ==
    LET p == parts(a)
        q == parts(b)
    IN  \/ StrLt(p[1], q[1])
        \/ p[1] = q[1] /\ p[2] < q[2]
        \/ p[1] = q[1] /\ p[2] = q[2] /\ p[3] < q[3]
        \/ p[1] = q[1] /\ p[2] = q[2] /\ p[3] = q[3] /\ StrLt(p[4], q[4])

MANYLINUX_ARM7 ==
    << "m", "a", "n", "y", "l", "i", "n", "u", "x", "_",
       "a", "r", "m", "v", "7", "l" >>

MACOS ==
    << "m", "a", "c", "o", "s", "x", "_",
       "u", "n", "i", "v", "e", "r", "s", "a", "l", "2" >>

\* The values of the members of enum Target.
Target == { MANYLINUX_ARM7, MACOS }

\* Target.expand_configuration(abis): one "{abi}-{target}" per ABI, in order.
OnlyFirstConfiguration(target, abis) == << abis[1] \o << "-" >> \o target >>

expand_configuration(target, abis) ==
    [i \in 1..Len(abis) |-> abis[i] \o << "-" >> \o target]

(***************************************************************************)
(* packaging.utils.parse_wheel_filename and packaging.tags                 *)
(***************************************************************************)

WHL == << ".", "w", "h", "l" >>

\* The value that stands for a raised exception of the given kind.
Raised(kind) == [raised |-> kind]

IsRaised(x) == DOMAIN x = { "raised" }

\* canonicalize_name: every run of "-", "_", "." becomes one "-" (the model's
\* names are lower case already).
RECURSIVE canonicalize_name(_)
canonicalize_name(s) ==
    LET IsSep(c) == c \in { "-", "_", "." }
    IN  IF s = <<>> THEN <<>>
        ELSE IF IsSep(s[1])
             THEN IF Len(s) > 1 /\ IsSep(s[2]) THEN canonicalize_name(Tail(s))
                  ELSE << "-" >> \o canonicalize_name(Tail(s))
             ELSE << s[1] >> \o canonicalize_name(Tail(s))

\* The project-name rule of parse_wheel_filename: word characters, "." and
\* "_" only, and no "__".
ValidProjectName(s) ==
    /\ \A i \in 1..Len(s) : s[i] \notin { "-", "/", ":" }
    /\ \A i \in 1..(Len(s) - 1) : ~(s[i] = "_" /\ s[i + 1] = "_")

\* packaging.tags.parse_tag: the product of the dotted interpreter, abi and
\* platform lists.
parse_tag(interpreters, abis, platforms) ==
    { [interpreter |-> i, abi |-> a, platform |-> p] :
        i \in Range(Split(interpreters, ".")),
        a \in Range(Split(abis, ".")),
        p \in Range(Split(platforms, ".")) }

\* packaging.utils.parse_wheel_filename: (name, version, tags), or the
\* InvalidWheelFilename (a ValueError) it raises.
parse_wheel_filename(filename) ==
    IF ~EndsWith(filename, WHL) THEN Raised("ValueError")
    ELSE LET p == Split(SubSeq(filename, 1, Len(filename) - Len(WHL)), "-")
         IN  IF Len(p) \notin { 5, 6 } THEN Raised("ValueError")
             ELSE IF ~ValidProjectName(p[1]) THEN Raised("ValueError")
             ELSE IF VersionParse(p[2]) = InvalidVersion THEN Raised("ValueError")
             ELSE IF Len(p) = 6 /\ (p[3] = <<>> \/ ~IsDecimal(p[3][1]))
                  THEN Raised("ValueError")
             ELSE [package |-> canonicalize_name(p[1]),
                   version |-> VersionParse(p[2]),
                   tags |-> parse_tag(p[Len(p) - 2], p[Len(p) - 1], p[Len(p)])]

(***************************************************************************)
(* picopypi.releases and picopypi.command.render: loading the release feed *)
(***************************************************************************)

\* _sort_tag, for its outcome only: the interpreter's digits are split into
\* major = int(version[0]) and minor = int(version[1:]).  An interpreter with
\* no digit after its two-letter family raises IndexError, one with a single
\* digit ("py3") raises ValueError from int("").
_sort_tag(tag) ==
    LET version0 == From(tag.interpreter, 2)
        cut == { i \in 1..Len(version0) : ~IsDecimal(version0[i]) }
        version == IF cut = {} THEN version0
                   ELSE Upto(version0, (CHOOSE i \in cut : \A j \in cut : i <= j) - 1)
    IN  IF version = <<>> THEN Raised("IndexError")
        ELSE IF int(From(version, 1)) = -1 THEN Raised("ValueError")
        ELSE [interpreter |-> Upto(tag.interpreter, 2),
              major |-> int(<< version[1] >>),
              minor |-> int(From(version, 1)),
              variant |-> <<>>,
              abi |-> tag.abi]

\* Wheel(name=...): __post_init__ parses the file name and computes the sort
\* key of every tag; the Wheel, or the exception the constructor raises.
Wheel(name) ==
    LET parsed == parse_wheel_filename(name)
    IN  IF IsRaised(parsed) THEN parsed
        ELSE IF \E t \in parsed.tags : _sort_tag(t) = Raised("IndexError")
             THEN Raised("IndexError")
        ELSE IF \E t \in parsed.tags : _sort_tag(t) = Raised("ValueError")
             THEN Raised("ValueError")
        ELSE [name |-> name, package |-> parsed.package,
              version |-> parsed.version, tags |-> parsed.tags]

SHA1 == << "s", "h", "a", "1" >>
SHA256 == << "s", "h", "a", "2", "5", "6" >>
MD5 == << "m", "d", "5" >>

\* hashlib.algorithms_guaranteed, as far as the model's digests go.
algorithms_guaranteed == { SHA1, SHA256, MD5 }

\* asset["digest"].partition(":")[0]
Algorithm(digest) == Split(digest, ":")[1]

\* The assets of the feed in the order the two nested loops visit them
\* (release["assets"] or () makes a release without assets an empty one).
RECURSIVE Assets(_)
Assets(feed) ==
    IF feed = <<>> THEN <<>> ELSE feed[1].assets \o Assets(Tail(feed))

\* packages[wheel.package].append(wheel) on a defaultdict(list)
Append1(packages, wheel) ==
    IF wheel.package \in DOMAIN packages
    THEN [packages EXCEPT ![wheel.package] = Append(@, wheel)]
    ELSE (wheel.package :> << wheel >>) @@ packages

\* The outcome of a load before and while it runs.
NoPackages == [packages |-> <<>>, stderr |-> <<>>, raised |-> "none"]

\* One turn of the loop body of releases.parse.
ParseAsset(acc, asset) ==
    IF acc.raised # "none" THEN acc
    ELSE IF ~EndsWith(asset.name, WHL) THEN acc
    ELSE IF Algorithm(asset.digest) \notin algorithms_guaranteed
         THEN [acc EXCEPT !.stderr = Append(@, asset.name)]
    ELSE LET wheel == Wheel(asset.name)
         IN  IF wheel = Raised("ValueError")
             THEN [acc EXCEPT !.stderr = Append(@, asset.name)]
             ELSE IF IsRaised(wheel) THEN [acc EXCEPT !.raised = wheel.raised]
             ELSE [acc EXCEPT !.packages = Append1(@, wheel)]

\* releases.parse(data)
RECURSIVE ParseFrom(_, _)
ParseFrom(acc, assets) ==
    IF assets = <<>> THEN acc
    ELSE ParseFrom(ParseAsset(acc, assets[1]), Tail(assets))

parse(feed) == ParseFrom(NoPackages, Assets(feed))

\* One turn of the loop body of render's load_from_github_api: nothing is
\* skipped, an unsupported digest and a failing Wheel(...) both raise.
RenderLoadAsset(acc, asset) ==
    IF acc.raised # "none" THEN acc
    ELSE IF Algorithm(asset.digest) \notin algorithms_guaranteed
         THEN [acc EXCEPT !.raised = "ValueError"]
    ELSE LET wheel == Wheel(asset.name)
         IN  IF IsRaised(wheel) THEN [acc EXCEPT !.raised = wheel.raised]
             ELSE [acc EXCEPT !.packages = Append1(@, wheel)]

\* render.load_from_github_api, from the decoded feed on.
RECURSIVE RenderLoadFrom(_, _)
RenderLoadFrom(acc, assets) ==
    IF assets = <<>> THEN acc
    ELSE RenderLoadFrom(RenderLoadAsset(acc, assets[1]), Tail(assets))

render_load_from_github_api(feed) == RenderLoadFrom(NoPackages, Assets(feed))

(***************************************************************************)
(* picopypi.releases and picopypi.command.render: the order of the wheels  *)
(***************************************************************************)

\* The tuple releases._sort_tag returns.
TagKey(tag) ==
    << _sort_tag(tag).interpreter, _sort_tag(tag).major, _sort_tag(tag).minor,
       _sort_tag(tag).variant, _sort_tag(tag).abi >>

\* The tuple render's _sort_tag returns: the same without the tag's abi.
RenderTagKey(tag) ==
    << _sort_tag(tag).interpreter, _sort_tag(tag).major, _sort_tag(tag).minor,
       _sort_tag(tag).variant >>

\* a[i:] < b[i:] for two tuples _sort_tag returned that agree before i; the
\* second and third fields are ints, the others strings.
RECURSIVE TagKeyLtFrom(_, _, _)
TagKeyLtFrom(a, b, i) ==
    IF i > Len(b) THEN FALSE
    ELSE IF i > Len(a) THEN TRUE
    ELSE IF a[i] = b[i] THEN TagKeyLtFrom(a, b, i + 1)
    ELSE IF i \in { 2, 3 } THEN a[i] < b[i]
    ELSE StrLt(a[i], b[i])

TagKeyLt(a, b) == TagKeyLtFrom(a, b, 1)

\* sorted(set(keys)): the keys in ascending order, each once.
RECURSIVE SortedKeys(_)
SortedKeys(keys) ==
    IF keys = {} THEN <<>>
    ELSE LET least == CHOOSE k \in keys : \A other \in keys : ~TagKeyLt(other, k)
         IN  << least >> \o SortedKeys(keys \ { least })

\* a[i:] < b[i:] for two tuples of tag keys that agree before i.
RECURSIVE KeysLtFrom(_, _, _)
KeysLtFrom(a, b, i) ==
    IF i > Len(b) THEN FALSE
    ELSE IF i > Len(a) THEN TRUE
    ELSE IF a[i] = b[i] THEN KeysLtFrom(a, b, i + 1)
    ELSE TagKeyLt(a[i], b[i])

KeysLt(a, b) == KeysLtFrom(a, b, 1)

\* The third component of Wheel._sort_key in releases.py and in render.py.
TagKeys(wheel) == SortedKeys({ TagKey(tag) : tag \in wheel.tags })

RenderTagKeys(wheel) == SortedKeys({ RenderTagKey(tag) : tag \in wheel.tags })

\* Two variables hold the same Wheel object.  Every asset of a feed makes an
\* object of its own; the feeds whose wheels are compared give every asset a
\* name of its own, so the name tells the objects apart.
Is(x, y) == x.name = y.name

\* releases._InverseSorter.__lt__ and __eq__ of the wrappers of the versions
\* of two wheels: other.obj <= self.obj and other.obj == self.obj.
InverseSorterLt(self, other) ==
    VersionLt(other.version, self.version) \/ other.version = self.version

InverseSorterEq(self, other) == other.version = self.version

\* render's _InverseSorter.__lt__: other.obj < self.obj.  The class defines
\* no __eq__, so two wrappers are equal only if they are one object.
NotInverseSorterLt(self, other) == VersionLt(self.version, other.version)

RenderInverseSorterLt(self, other) == VersionLt(other.version, self.version)

RenderInverseSorterEq(self, other) == Is(self, other)

\* releases.Wheel.__lt__: self._sort_key < other._sort_key, the comparison of
\* two tuples, which is the "<" of the first components that are not equal.
WheelLt(self, other) ==
    IF self.package # other.package THEN StrLt(self.package, other.package)
    ELSE IF ~InverseSorterEq(self, other) THEN InverseSorterLt(self, other)
    ELSE KeysLt(TagKeys(self), TagKeys(other))

\* render's Wheel.__lt__.
RenderWheelLt(self, other) ==
    IF self.package # other.package THEN StrLt(self.package, other.package)
    ELSE IF ~RenderInverseSorterEq(self, other)
         THEN RenderInverseSorterLt(self, other)
    ELSE KeysLt(RenderTagKeys(self), RenderTagKeys(other))

\* sorted(files) in render_html: a stable sort that asks only "<".
RECURSIVE InsertWheel(_, _)
InsertWheel(sorted, x) ==
    IF sorted # <<>> /\ RenderWheelLt(x, sorted[Len(sorted)])
    THEN Append(InsertWheel(SubSeq(sorted, 1, Len(sorted) - 1), x),
                sorted[Len(sorted)])
    ELSE Append(sorted, x)

RECURSIVE SortWheelsFrom(_, _)
SortWheelsFrom(sorted, rest) ==
    IF rest = <<>> THEN sorted
    ELSE SortWheelsFrom(InsertWheel(sorted, rest[1]), Tail(rest))

SortedWheels(files) == SortWheelsFrom(<<>>, files)

\* render_html(packages, target): per package the files in the order of the
\* package's page and the version shown as latest on the index page.
render_html(pkgs) ==
    [package \in DOMAIN pkgs |->
        LET files == SortedWheels(pkgs[package])
        IN  [files |-> files, latest |-> files[1].version]]

(***************************************************************************)
(* picopypi.gitutil: the revision validator                                *)
(***************************************************************************)

\* The digest sizes of sha1 and sha256, in bytes.
ALLOWED_DIGEST_LENGTHS == { 20, 32 }

\* [0-9a-fA-F], as far as the model's lower-case characters go.
IsHex(c) == IsDecimal(c) \/ c \in { "a", "b", "c", "d", "e", "f" }

\* ALLOWED_DIGEST_RE.fullmatch(value): twice a digest size of hex characters.
ALLOWED_DIGEST_RE(value) ==
    /\ \E length \in ALLOWED_DIGEST_LENGTHS : Len(value) = length * 2
    /\ \A i \in 1..Len(value) : IsHex(value[i])

\* gitutil.revision(value): the value, or the ValueError it raises.
gitutil_revision(value) ==
    IF ~ALLOWED_DIGEST_RE(value) THEN Raised("ValueError") ELSE value

(***************************************************************************)
(* picopypi.command.build: expand_wheels and gather_build_infos            *)
(***************************************************************************)

MANYLINUX == << "m", "a", "n", "y", "l", "i", "n", "u", "x" >>
MUSLLINUX == << "m", "u", "s", "l", "l", "i", "n", "u", "x" >>
MACOSX == << "m", "a", "c", "o", "s", "x" >>

\* _PLATFORM_RE.match(platform).end(): the length of the family the platform
\* starts with, 0 when the pattern does not match.
_PLATFORM_RE(platform) ==
    IF StartsWith(platform, MANYLINUX) THEN Len(MANYLINUX)
    ELSE IF StartsWith(platform, MUSLLINUX) THEN Len(MUSLLINUX)
    ELSE IF StartsWith(platform, MACOSX) THEN Len(MACOSX)
    ELSE 0

_SatisfactionKey(package, version, target) ==
    [package |-> package, version |-> version, target |-> target]

\* The third field of the key expand_wheels builds for a matched platform.
NormalizeKeepQualifier(platform) ==
    Join(<< Upto(platform, _PLATFORM_RE(platform)),
            From(platform, _PLATFORM_RE(platform) + 1) >>, << "_" >>)

NormalizePartition(platform) ==
    Join(<< Upto(platform, _PLATFORM_RE(platform)),
            Split(platform, "_")[2] >>, << "_" >>)

Normalize(platform) ==
    Join(<< Upto(platform, _PLATFORM_RE(platform)),
            RPartitionTail(platform, "_") >>, << "_" >>)

\* result[key].add(abi) on a defaultdict(set)
AddAbi(result, key, abi) ==
    IF key \in DOMAIN result THEN [result EXCEPT ![key] = @ \cup { abi }]
    ELSE (key :> { abi }) @@ result

\* The loop body of expand_wheels for one tag of one wheel.
ExpandTagSkipping(acc, wheel, tag) ==
    IF acc.raised # "none" \/ _PLATFORM_RE(tag.platform) = 0 THEN acc
    ELSE [acc EXCEPT !.index =
              AddAbi(@, _SatisfactionKey(wheel.package, wheel.version,
                                         Normalize(tag.platform)), tag.abi)]

ExpandTag(acc, wheel, tag) ==
    IF acc.raised # "none" THEN acc
    ELSE IF _PLATFORM_RE(tag.platform) = 0 THEN [acc EXCEPT !.raised = "ValueError"]
    ELSE [acc EXCEPT !.index =
              AddAbi(@, _SatisfactionKey(wheel.package, wheel.version,
                                         Normalize(tag.platform)), tag.abi)]

\* for tag in wheel.tags, in some order of the frozenset
RECURSIVE ExpandTags(_, _, _)
ExpandTags(acc, wheel, tags) ==
    IF tags = {} THEN acc
    ELSE LET tag == CHOOSE t \in tags : TRUE
         IN  ExpandTags(ExpandTag(acc, wheel, tag), wheel, tags \ { tag })

RECURSIVE ExpandFrom(_, _)
ExpandFrom(acc, wheels) ==
    IF wheels = <<>> THEN acc
    ELSE ExpandFrom(ExpandTags(acc, wheels[1], wheels[1].tags), Tail(wheels))

\* expand_wheels(wheels): the index, or the ValueError raised for an
\* unhandled platform (then no index is returned).
expand_wheels(wheels) ==
    LET out == ExpandFrom([index |-> <<>>, raised |-> "none"], wheels)
    IN  IF out.raised # "none" THEN [index |-> <<>>, raised |-> out.raised] ELSE out

\* itertools.chain.from_iterable(releases.values())
RECURSIVE Chain(_)
Chain(releases) ==
    IF DOMAIN releases = {} THEN <<>>
    ELSE LET k == CHOOSE x \in DOMAIN releases : TRUE
         IN  releases[k] \o Chain([x \in DOMAIN releases \ { k } |-> releases[x]])

CP3 == << "c", "p", "3" >>
ABI3 == << "a", "b", "i", "3" >>

\* provided.get(key, ())
Published(provided, key) == IF key \in DOMAIN provided THEN provided[key] ELSE {}

\* satisfied = abi in abis or (abi.startswith("cp3") and not
\* abi.endswith(("t", "m")) and "abi3" in abis)
SatisfiedExactOnly(abi, abis) == abi \in abis

SatisfiedAnyCp3(abi, abis) ==
    abi \in abis \/ (StartsWith(abi, CP3) /\ ABI3 \in abis)

Satisfied(abi, abis) ==
    abi \in abis \/ (StartsWith(abi, CP3) /\ ~EndsWithTM(abi) /\ ABI3 \in abis)

\* zip(targets, abis)
zip(targets, abis) ==
    [k \in 1..(IF Len(targets) < Len(abis) THEN Len(targets) ELSE Len(abis)) |->
        << targets[k], abis[k] >>]

\* itertools.product(targets, abis): both lists are copied when product is
\* called, so rebinding the name abis inside the loop changes no pair.
product(targets, abis) ==
    [k \in 1..(Len(targets) * Len(abis)) |->
        << targets[((k - 1) \div Len(abis)) + 1], abis[((k - 1) % Len(abis)) + 1] >>]

BuildInfo(package, repository, revision, version, target, abi) ==
    [package |-> package, repository |-> repository, revision |-> revision,
     version |-> version, target |-> target, abi |-> abi]

\* The loop body of gather_build_infos for one (target, abi) pair.
GatherPair(acc, entry, version, pair, provided) ==
    LET target == pair[1]
        abi == pair[2]
        key == _SatisfactionKey(entry.package, version, target)
    IN  IF acc.raised # "none" \/ Satisfied(abi, Published(provided, key)) THEN acc
        ELSE IF target \notin Target \/ abi \notin Abi
             THEN [acc EXCEPT !.raised = "ValueError"]
        ELSE [acc EXCEPT !.builds =
                  Append(@, BuildInfo(entry.package, entry.repository,
                                      entry.revision, version, target, abi))]

RECURSIVE GatherPairs(_, _, _, _, _)
GatherPairs(acc, entry, version, pairs, provided) ==
    IF pairs = <<>> THEN acc
    ELSE GatherPairs(GatherPair(acc, entry, version, pairs[1], provided),
                     entry, version, Tail(pairs), provided)

\* The loop body of gather_build_infos for one build of one build group.
GatherEntry(acc, entry, provided) ==
    IF acc.raised # "none" THEN acc
    ELSE IF VersionParse(entry.version) = InvalidVersion
         THEN [acc EXCEPT !.raised = "InvalidVersion"]
    ELSE GatherPairs(acc, entry, VersionParse(entry.version),
                     product(entry.targets, entry.abis), provided)

RECURSIVE GatherFrom(_, _, _)
GatherFrom(acc, entries, provided) ==
    IF entries = <<>> THEN acc
    ELSE GatherFrom(GatherEntry(acc, entries[1], provided), Tail(entries), provided)

(***************************************************************************)
(* picopypi.command.build: group_builds                                    *)
(***************************************************************************)

\* build_group_key, build_key and pass_key, by nesting level of the groupby.
KeyAt(level, info) ==
    CASE level = 1 -> << info.package, info.repository >>
      [] level = 2 -> << info.version, info.revision >>
      [] level = 3 -> << info.target >>

\* sort_key(a) < sort_key(b): tuples of (package, repository, version,
\* revision, target) compared lexicographically, Target comparing as str.
SortKeyLt(a, b) ==
    \/ StrLt(a.package, b.package)
    \/ /\ a.package = b.package
       /\ \/ StrLt(a.repository, b.repository)
          \/ /\ a.repository = b.repository
             /\ \/ VersionLt(a.version, b.version)
                \/ /\ a.version = b.version
                   /\ \/ StrLt(a.revision, b.revision)
                      \/ /\ a.revision = b.revision
                         /\ StrLt(a.target, b.target)

\* One insertion of the stable sort: x goes after every element that is not
\* greater than it.
RECURSIVE InsertInfo(_, _)
InsertInfo(sorted, x) ==
    IF sorted # <<>> /\ SortKeyLt(x, sorted[Len(sorted)])
    THEN Append(InsertInfo(SubSeq(sorted, 1, Len(sorted) - 1), x), sorted[Len(sorted)])
    ELSE Append(sorted, x)

RECURSIVE SortInfosFrom(_, _)
SortInfosFrom(sorted, rest) ==
    IF rest = <<>> THEN sorted
    ELSE SortInfosFrom(InsertInfo(sorted, rest[1]), Tail(rest))

\* sorted(build_infos, key=sort_key)
NotSortedInfos(build_infos) == build_infos

SortedInfos(build_infos) == SortInfosFrom(<<>>, build_infos)

RECURSIVE InsertAbi(_, _)
InsertAbi(sorted, x) ==
    IF sorted # <<>> /\ AbiLt(x, sorted[Len(sorted)])
    THEN Append(InsertAbi(SubSeq(sorted, 1, Len(sorted) - 1), x), sorted[Len(sorted)])
    ELSE Append(sorted, x)

RECURSIVE SortAbisFrom(_, _)
SortAbisFrom(sorted, rest) ==
    IF rest = <<>> THEN sorted
    ELSE SortAbisFrom(InsertAbi(sorted, rest[1]), Tail(rest))

\* sorted(info.abi for info in pass_infos)
NotSortedAbis(abis) == abis

SortedAbis(abis) == SortAbisFrom(<<>>, abis)

\* itertools.groupby(infos, key): the runs of consecutive elements with equal
\* keys, in order.
RECURSIVE groupby(_, _)
groupby(infos, level) ==
    IF infos = <<>> THEN <<>>
    ELSE LET rest == groupby(Tail(infos), level)
         IN  IF rest # <<>> /\ KeyAt(level, rest[1][1]) = KeyAt(level, infos[1])
             THEN << << infos[1] >> \o rest[1] >> \o Tail(rest)
             ELSE << << infos[1] >> >> \o rest

BuildPass(pass_infos) ==
    [target |-> pass_infos[1].target,
     abis |-> SortedAbis([i \in 1..Len(pass_infos) |-> pass_infos[i].abi])]

Build(infos) ==
    LET runs == groupby(infos, 3)
    IN  [version |-> infos[1].version, revision |-> infos[1].revision,
         passes |-> [i \in 1..Len(runs) |-> BuildPass(runs[i])]]

BuildGroup(group_infos) ==
    LET runs == groupby(group_infos, 2)
    IN  [package |-> group_infos[1].package,
         repository |-> group_infos[1].repository,
         builds |-> [i \in 1..Len(runs) |-> Build(runs[i])]]

\* list(group_builds(build_infos))
group_builds(build_infos) ==
    LET runs == groupby(SortedInfos(build_infos), 1)
    IN  [i \in 1..Len(runs) |-> BuildGroup(runs[i])]

(***************************************************************************)
(* picopypi.command.build: run                                             *)
(***************************************************************************)

Entry(op, arg, abis) == [op |-> op, arg |-> arg, abis |-> abis]

REPOS == << "r", "e", "p", "o", "s" >>
WHEELS == << "w", "h", "e", "e", "l", "s" >>

\* The external actions among the entries of the log; the others are prints.
EffectOps == { "create_ignored_folder", "clone_or_fetch", "checkout", "cibuildwheel" }

Effects(entries) == SelectSeq(entries, LAMBDA e : e.op \in EffectOps)

Stdout(entries) == SelectSeq(entries, LAMBDA e : e.op \notin EffectOps)

\* The passes of the plan, in plan order.
RECURSIVE PassesOfBuilds(_)
PassesOfBuilds(blds) ==
    IF blds = <<>> THEN <<>> ELSE blds[1].passes \o PassesOfBuilds(Tail(blds))

RECURSIVE PassesOf(_)
PassesOf(grps) ==
    IF grps = <<>> THEN <<>> ELSE PassesOfBuilds(grps[1].builds) \o PassesOf(Tail(grps))

\* Target.native(), which run calls for every pass and which build.py does
\* not define: whether this host builds the target itself.  Its answer is
\* left open: hosts is any set of targets.
Native(target, hosts) == target \in hosts

\* The body of "for build_pass in build.passes".
RECURSIVE RunPasses(_, _, _)
RunPasses(passes, dry, hosts) ==
    IF passes = <<>> THEN <<>>
    ELSE (IF ~Native(passes[1].target, hosts)
          THEN << Entry("Skip (non native)", passes[1].target, passes[1].abis) >>
          ELSE << Entry("Build", passes[1].target, passes[1].abis) >>
               \o (IF dry THEN <<>>
                   ELSE << Entry("cibuildwheel", passes[1].target,
                                 expand_configuration(passes[1].target,
                                                      passes[1].abis)) >>))
         \o RunPasses(Tail(passes), dry, hosts)

\* The body of "for build in group.builds".
RECURSIVE RunBuilds(_, _, _)
RunBuilds(blds, dry, hosts) ==
    IF blds = <<>> THEN <<>>
    ELSE << Entry("=> Building", blds[1].revision, <<>>) >>
         \o (IF dry THEN <<>> ELSE << Entry("checkout", blds[1].revision, <<>>) >>)
         \o RunPasses(blds[1].passes, dry, hosts)
         \o RunBuilds(Tail(blds), dry, hosts)

\* The body of "for group in groups".
RECURSIVE RunGroups(_, _, _)
RunGroups(grps, dry, hosts) ==
    IF grps = <<>> THEN <<>>
    ELSE << Entry("Building", grps[1].package, <<>>) >>
         \o (IF dry THEN <<>>
             ELSE << Entry("clone_or_fetch", grps[1].repository, <<>>) >>)
         \o RunBuilds(grps[1].builds, dry, hosts)
         \o RunGroups(Tail(grps), dry, hosts)

\* run from "if not groups" on: what it prints and does when no external
\* action fails.  A cibuildwheel entry holds the identifiers of CIBW_BUILD.
RunPlanCreatingFolders(grps, dry, hosts) ==
    << Entry("Build passes to be performed", <<>>, <<>>),
       Entry("create_ignored_folder", REPOS, <<>>),
       Entry("create_ignored_folder", WHEELS, <<>>) >>
    \o RunGroups(grps, dry, hosts)

RunPlan(grps, dry, hosts) ==
    IF ~dry /\ \A i \in 1..Len(PassesOf(grps)) : ~Native(PassesOf(grps)[i].target, hosts)
    THEN << Entry("All build passes have been skipped!", <<>>, <<>>) >>
    ELSE << Entry("Build passes to be performed", <<>>, <<>>) >>
         \o (IF dry THEN <<>>
             ELSE << Entry("create_ignored_folder", REPOS, <<>>),
                     Entry("create_ignored_folder", WHEELS, <<>>) >>)
         \o RunGroups(grps, dry, hosts)

RunWithoutEmptyCheck(grps, dry, hosts) == RunPlan(grps, dry, hosts)

RunLog(grps, dry, hosts) ==
    IF grps = <<>> THEN << Entry("Nothing to build!", <<>>, <<>>) >>
    ELSE RunPlan(grps, dry, hosts)

\* What run has printed and done when its stop-th external action fails: the
\* exception of a git call or a folder creation, or the exit after a failed
\* cibuildwheel, ends run there.  stop = 0 when none fails.
RECURSIVE Truncate(_, _)
Truncate(entries, stop) ==
    IF stop = 0 \/ entries = <<>> THEN entries
    ELSE IF entries[1].op \notin EffectOps
         THEN << entries[1] >> \o Truncate(Tail(entries), stop)
    ELSE IF stop = 1 THEN << entries[1] >>
    ELSE << entries[1] >> \o Truncate(Tail(entries), stop - 1)

(***************************************************************************)
(* Inputs                                                                  *)
(***************************************************************************)

\* The number of wheels in the release mapping given to gather_build_infos.
MaxWheels == 2

\* The number of builds in the build matrix.
MaxEntries == 2

\* The number of BuildInfos given to group_builds.
MaxUnits == 3

\* The number of assets in the release feed.
MaxAssets == 3

SeqsUpTo(S, n) == UNION { [1..k -> S] : k \in 0..n }

RECURSIVE SetToSeq(_)
SetToSeq(S) ==
    IF S = {} THEN <<>>
    ELSE LET x == CHOOSE y \in S : TRUE IN << x >> \o SetToSeq(S \ { x })

PKGA == << "p", "k", "g", "a" >>
PKG_B_FILE == << "p", "k", "g", "_", "b" >>
PKG_B == << "p", "k", "g", "-", "b" >>
REPO_A == << "o", "/", "p", "k", "g", "a" >>
REPO_B == << "o", "/", "p", "k", "g", "-", "b" >>
V1_0 == << "1", ".", "0" >>
V1_0_0 == << "1", ".", "0", ".", "0" >>
V2_0 == << "2", ".", "0" >>
CP39 == << "c", "p", "3", "9" >>
PY3 == << "p", "y", "3" >>
NONE == << "n", "o", "n", "e" >>
ANY == << "a", "n", "y" >>
ML_2_17_ARMV7L ==
    << "m", "a", "n", "y", "l", "i", "n", "u", "x", "_", "2", "_", "1", "7",
       "_", "a", "r", "m", "v", "7", "l" >>
ML_2_31_ARMV7L ==
    << "m", "a", "n", "y", "l", "i", "n", "u", "x", "_", "2", "_", "3", "1",
       "_", "a", "r", "m", "v", "7", "l" >>
ML2014_ARMV7L ==
    << "m", "a", "n", "y", "l", "i", "n", "u", "x", "2", "0", "1", "4", "_",
       "a", "r", "m", "v", "7", "l" >>
MACOSX_11_0_UNIVERSAL2 ==
    << "m", "a", "c", "o", "s", "x", "_", "1", "1", "_", "0", "_", "u", "n",
       "i", "v", "e", "r", "s", "a", "l", "2" >>
WIN_AMD64 == << "w", "i", "n", "_", "a", "m", "d", "6", "4" >>
NOTES_TXT == << "n", "o", "t", "e", "s", ".", "t", "x", "t" >>
CRC32_0 == << "c", "r", "c", "3", "2", ":", "0" >>
SHA256_0 == << "s", "h", "a", "2", "5", "6", ":", "0" >>

REV1 == [i \in 1..40 |-> "a"]
REV2 == [i \in 1..40 |-> "b"]
REV_SHORT == << "a", "b", "c" >>
V1_X == << "1", ".", "x" >>
MACOSX_ARM64 == << "m", "a", "c", "o", "s", "x", "_", "a", "r", "m", "6", "4" >>

\* {package}-{version}-{interpreter}-{abi}-{platform}.whl
WheelName(package, version, interpreter, abi, platform) ==
    Join(<< package, version, interpreter, abi, platform >>, << "-" >>) \o WHL

\* The file names of the published wheels the release mappings are built from.
WheelNames ==
    { WheelName(PKGA, V1_0, CP310, ABI3, ML_2_17_ARMV7L \o << "." >> \o ML2014_ARMV7L),
      WheelName(PKGA, V1_0, CP313, CP313T, ML_2_31_ARMV7L),
      WheelName(PKGA, V2_0, CP311, CP311, MACOSX_11_0_UNIVERSAL2),
      WheelName(PKG_B_FILE, V2_0, CP312, ABI3, MACOSX_11_0_UNIVERSAL2),
      WheelName(PKG_B_FILE, V2_0, CP312, CP312, WIN_AMD64) }

\* The mapping releases.parse returns for the wheels of a list.
RECURSIVE ReleasesOf(_)
ReleasesOf(wheels) ==
    IF wheels = <<>> THEN <<>>
    ELSE Append1(ReleasesOf(SubSeq(wheels, 1, Len(wheels) - 1)), wheels[Len(wheels)])

\* The release mappings: those of at most MaxWheels wheels.
ReleasesUniverse ==
    { ReleasesOf(SetToSeq({ Wheel(n) : n \in names })) :
        names \in { ns \in SUBSET WheelNames : Cardinality(ns) <= MaxWheels } }

\* One build of a build group of the build matrix, with the group's package
\* and repository.
BuildEntry(package, repository, revision, version, targets, abis) ==
    [package |-> package, repository |-> repository, revision |-> revision,
     version |-> version, targets |-> targets, abis |-> abis]

TargetLists == { << MANYLINUX_ARM7 >>, << MACOS, MANYLINUX_ARM7 >> }

AbiLists == { << CP310, CP311, CP313T >>, << CP312, CP313, CP314, CP314T, CP39 >> }

\* The entries of a build file that was not written with care: a version
\* that does not parse, a revision that is no digest, a target that is no
\* Target member.
BadEntries ==
    { BuildEntry(PKGA, REPO_A, REV1, V1_X, << MANYLINUX_ARM7 >>, << CP310 >>),
      BuildEntry(PKGA, REPO_A, REV_SHORT, V2_0, << MANYLINUX_ARM7 >>, << CP310 >>),
      BuildEntry(PKG_B, REPO_B, REV2, V2_0, << MACOSX_ARM64 >>, << CP312 >>) }

BuildEntries ==
    { BuildEntry(b[1], b[2], b[3], b[4], t, a) :
        b \in { << PKGA, REPO_A, REV1, V1_0_0 >>, << PKG_B, REPO_B, REV2, V2_0 >> },
        t \in TargetLists, a \in AbiLists }
    \cup BadEntries

\* The build matrices: data["build"] flattened to one record per (build
\* group, build), in the order the two loops of gather_build_infos visit them.
Matrices == SeqsUpTo(BuildEntries, MaxEntries)

\* The BuildInfos group_builds is applied to: one base unit and the units
\* that differ from it in one field.
Units ==
    { BuildInfo(PKGA, REPO_A, REV1, << 1 >>, MANYLINUX_ARM7, CP310),
      BuildInfo(PKG_B, REPO_A, REV1, << 1 >>, MANYLINUX_ARM7, CP310),
      BuildInfo(PKGA, REPO_B, REV1, << 1 >>, MANYLINUX_ARM7, CP310),
      BuildInfo(PKGA, REPO_A, REV2, << 1 >>, MANYLINUX_ARM7, CP310),
      BuildInfo(PKGA, REPO_A, REV1, << 2 >>, MANYLINUX_ARM7, CP310),
      BuildInfo(PKGA, REPO_A, REV1, << 1 >>, MACOS, CP310),
      BuildInfo(PKGA, REPO_A, REV1, << 1 >>, MANYLINUX_ARM7, CP313T),
      BuildInfo(PKGA, REPO_A, REV1, << 1 >>, MANYLINUX_ARM7, CP311) }

Asset(name, digest) == [name |-> name, digest |-> digest]

\* The assets of the release feed.
AssetUniverse ==
    { Asset(WheelName(PKGA, V1_0, CP310, ABI3, ML_2_17_ARMV7L), SHA256_0),
      Asset(WheelName(PKG_B_FILE, V2_0, CP311, CP311, MACOSX_11_0_UNIVERSAL2), SHA256_0),
      Asset(WheelName(PKGA, V2_0, CP312, CP312, ML_2_31_ARMV7L), CRC32_0),
      Asset(PKGA \o << "-" >> \o CP310 \o WHL, SHA256_0),
      Asset(NOTES_TXT, SHA256_0),
      Asset(WheelName(PKGA, V1_0, PY3, NONE, ANY), SHA256_0) }

\* The feeds: two releases that hold at most MaxAssets assets together.
Feeds ==
    UNION { { << [assets |-> SubSeq(a, 1, k)],
                 [assets |-> SubSeq(a, k + 1, Len(a))] >> : k \in 0..Len(a) } :
            a \in SeqsUpTo(AssetUniverse, MaxAssets) }

\* The number of assets in the feed whose wheels are sorted and compared.
MaxFiles == 3

V1_9_0 == << "1", ".", "9", ".", "0" >>
V2_0_0 == << "2", ".", "0", ".", "0" >>

\* The assets of that feed: wheels of three versions, wheels of one version
\* that differ in their tags, in the abi alone or in the spelling of the
\* version, and a wheel of another package.
RenderAssets ==
    { Asset(WheelName(PKGA, V1_0_0, CP310, CP310, ML_2_17_ARMV7L), SHA256_0),
      Asset(WheelName(PKGA, V2_0_0, CP310, CP310, ML_2_17_ARMV7L), SHA256_0),
      Asset(WheelName(PKGA, V1_9_0, CP310, CP310, ML_2_17_ARMV7L), SHA256_0),
      Asset(WheelName(PKGA, V2_0_0, CP311, CP311, ML_2_17_ARMV7L), SHA256_0),
      Asset(WheelName(PKGA, V2_0, CP310, ABI3, ML_2_17_ARMV7L), SHA256_0),
      Asset(WheelName(PKGA, V2_0_0, CP310 \o << "." >> \o CP311, ABI3,
                      ML_2_17_ARMV7L), SHA256_0),
      Asset(WheelName(PKG_B_FILE, V1_0_0, CP310, CP310, ML_2_17_ARMV7L), SHA256_0) }

\* The feeds of one release with at most MaxFiles of these assets, each once.
RenderFeeds ==
    { << [assets |-> a] >> :
        a \in { b \in SeqsUpTo(RenderAssets, MaxFiles) :
                  \A i, j \in 1..Len(b) : i # j => b[i] # b[j] } }

(***************************************************************************)
(* The state machines                                                      *)
(***************************************************************************)

VARIABLES
    feed,         \* the decoded release feed given to the two loaders
    packages,     \* the outcome of releases.parse(feed)
    rpackages,    \* the outcome of render's load_from_github_api on feed
    releases,     \* run: the package -> wheels mapping of the releases
    data,         \* gather_build_infos: the build matrix read from the file
    provided,     \* gather_build_infos: the index expand_wheels returned
    build_infos,  \* the BuildInfos gather_build_infos has yielded
    raised,       \* the exception that ended the build command, or "none"
    groups,       \* run: list(group_builds(builds))
    dry_run,      \* args.dry_run
    native,       \* the targets the host is native for
    log,          \* what run printed and did, in order
    html,         \* what render_html wrote: the pages' files and latest versions
    cmp,          \* the last comparison of two wheels releases.parse loaded
    pc            \* where the command is

vars ==
    << feed, packages, rpackages, releases, data, provided, build_infos, raised,
       groups, dry_run, native, log, html, cmp, pc >>

\* render_html has not run.
NotRendered == [done |-> FALSE, pages |-> <<>>]

\* No two wheels were compared.
NotCompared ==
    [done |-> FALSE, self |-> <<>>, other |-> <<>>,
     wheel_lt |-> FALSE, inverse_lt |-> FALSE]

NotRun == [packages |-> <<>>, stderr |-> <<>>, raised |-> "notrun"]

\* The build command after the releases were loaded.
Init ==
    /\ releases \in ReleasesUniverse
    /\ pc = "start"
    /\ feed = <<>> /\ packages = NotRun /\ rpackages = NotRun
    /\ data = <<>> /\ provided = <<>> /\ build_infos = <<>> /\ raised = "none"
    /\ groups = <<>> /\ dry_run = FALSE /\ native = {} /\ log = <<>>
    /\ html = NotRendered /\ cmp = NotCompared

\* gather_build_infos: the build file is read and evaluated.
ReadBuildFile ==
    /\ pc = "start"
    /\ data' \in Matrices
    /\ pc' = "read"
    /\ UNCHANGED << html, cmp, feed, packages, rpackages, releases, provided, build_infos,
                    raised, groups, dry_run, native, log >>

\* gather_build_infos: provided = expand_wheels(wheels).
ExpandWheels ==
    /\ pc = "read"
    /\ LET out == expand_wheels(Chain(releases))
       IN  /\ provided' = out.index
           /\ raised' = out.raised
           /\ pc' = IF out.raised = "none" THEN "expanded" ELSE "raised"
    /\ UNCHANGED << html, cmp, feed, packages, rpackages, releases, data, build_infos,
                    groups, dry_run, native, log >>

\* gather_build_infos: the loops over the build matrix, consumed to the end
\* or to the exception that ends them.
Gather ==
    /\ pc = "expanded"
    /\ LET out == GatherFrom([builds |-> <<>>, raised |-> "none"], data, provided)
       IN  /\ build_infos' = out.builds
           /\ raised' = out.raised
           /\ pc' = IF out.raised = "none" THEN "gathered" ELSE "raised"
    /\ UNCHANGED << html, cmp, feed, packages, rpackages, releases, data, provided,
                    groups, dry_run, native, log >>

\* run: groups = list(group_builds(builds)).
GroupBuilds ==
    /\ pc = "gathered"
    /\ groups' = group_builds(build_infos)
    /\ pc' = "grouped"
    /\ UNCHANGED << html, cmp, feed, packages, rpackages, releases, data, provided,
                    build_infos, raised, dry_run, native, log >>

\* run: from "if not groups" to its end, or to the external action that
\* fails; args.dry_run and the host are settled where run first reads them.
Run ==
    /\ pc = "grouped"
    /\ dry_run' \in BOOLEAN
    /\ native' \in SUBSET Target
    /\ \E stop \in 0..Len(Effects(RunLog(groups, dry_run', native'))) :
        /\ log' = Truncate(RunLog(groups, dry_run', native'), stop)
        /\ raised' = IF stop = 0 THEN "none" ELSE "failed"
    /\ pc' = "done"
    /\ UNCHANGED << html, cmp, feed, packages, rpackages, releases, data, provided,
                    build_infos, groups >>

Next == ReadBuildFile \/ ExpandWheels \/ Gather \/ GroupBuilds

Spec == Init /\ [][Next]_vars

\* group_builds and run on any sequence of BuildInfos.
InitGroup ==
    /\ build_infos \in SeqsUpTo(Units, MaxUnits)
    /\ pc = "gathered"
    /\ feed = <<>> /\ packages = NotRun /\ rpackages = NotRun
    /\ releases = <<>> /\ data = <<>> /\ provided = <<>> /\ raised = "none"
    /\ groups = <<>> /\ dry_run = FALSE /\ native = {} /\ log = <<>>
    /\ html = NotRendered /\ cmp = NotCompared

NextGroup == GroupBuilds \/ Run

SpecGroup == InitGroup /\ [][NextGroup]_vars

\* releases.parse on the feed.
Parse ==
    /\ pc = "feed"
    /\ packages = NotRun
    /\ packages' = parse(feed)
    /\ UNCHANGED << html, cmp, feed, rpackages, releases, data, provided, build_infos,
                    raised, groups, dry_run, native, log, pc >>

\* render's load_from_github_api on the feed.
RenderLoad ==
    /\ pc = "feed"
    /\ rpackages = NotRun
    /\ rpackages' = render_load_from_github_api(feed)
    /\ UNCHANGED << html, cmp, feed, packages, releases, data, provided, build_infos,
                    raised, groups, dry_run, native, log, pc >>

\* The two loaders of the release feed.
InitFeed ==
    /\ feed \in Feeds
    /\ pc = "feed"
    /\ packages = NotRun /\ rpackages = NotRun
    /\ releases = <<>> /\ data = <<>> /\ provided = <<>> /\ build_infos = <<>>
    /\ raised = "none" /\ groups = <<>> /\ dry_run = FALSE /\ native = {}
    /\ log = <<>>
    /\ html = NotRendered /\ cmp = NotCompared

NextFeed == Parse \/ RenderLoad

SpecFeed == InitFeed /\ [][NextFeed]_vars

\* The wheels of a loaded mapping.
LoadedWheels(out) == UNION { Range(out.packages[p]) : p \in DOMAIN out.packages }

\* render's run: render_html(packages, target) after the load.
RenderHtml ==
    /\ pc = "feed"
    /\ rpackages # NotRun
    /\ rpackages.raised = "none"
    /\ ~html.done
    /\ html' = [done |-> TRUE, pages |-> render_html(rpackages.packages)]
    /\ UNCHANGED << cmp, feed, packages, rpackages, releases, data, provided,
                    build_infos, raised, groups, dry_run, native, log, pc >>

\* self < other for two wheels releases.parse loaded, and for the wrappers
\* of their versions.
Compare ==
    /\ pc = "feed"
    /\ packages # NotRun
    /\ ~cmp.done
    /\ \E self \in LoadedWheels(packages), other \in LoadedWheels(packages) :
        cmp' = [done |-> TRUE, self |-> self, other |-> other,
                wheel_lt |-> WheelLt(self, other),
                inverse_lt |-> InverseSorterLt(self, other)]
    /\ UNCHANGED << html, feed, packages, rpackages, releases, data, provided,
                    build_infos, raised, groups, dry_run, native, log, pc >>

\* The render command, and the comparison of wheels of releases.py.
InitRender ==
    /\ feed \in RenderFeeds
    /\ pc = "feed"
    /\ packages = NotRun /\ rpackages = NotRun
    /\ releases = <<>> /\ data = <<>> /\ provided = <<>> /\ build_infos = <<>>
    /\ raised = "none" /\ groups = <<>> /\ dry_run = FALSE /\ native = {}
    /\ log = <<>>
    /\ html = NotRendered /\ cmp = NotCompared

NextRender == RenderLoad \/ RenderHtml

SpecRender == InitRender /\ [][NextRender]_vars

NextOrder == Parse \/ Compare

SpecOrder == InitRender /\ [][NextOrder]_vars

(***************************************************************************)
(* The claims about gather_build_infos and expand_wheels (Spec)            *)
(***************************************************************************)

\* An ABI of the form cp3N: "cp3", then the digits of the minor version and
\* no variant suffix.
IsCp3N(abi) ==
    StartsWith(abi, CP3) /\ Len(abi) > Len(CP3)
        /\ \A i \in (Len(CP3) + 1)..Len(abi) : IsDecimal(abi[i])

\* The published ABI set stored in the index for a build entry and a target.
PublishedFor(entry, target) ==
    Published(provided,
              _SatisfactionKey(entry.package, VersionParse(entry.version), target))

\* The BuildInfo a build entry asks for with a target and an ABI.
InfoFor(entry, target, abi) ==
    BuildInfo(entry.package, entry.repository, entry.revision,
              VersionParse(entry.version), target, abi)

Emitted(entry, target, abi) ==
    \E k \in 1..Len(build_infos) : build_infos[k] = InfoFor(entry, target, abi)

GatherDone == pc \in { "gathered", "grouped" }

\* C1: whenever the published ABI set of the key (package, version, target)
\* contains "abi3", no BuildInfo is emitted for a requested ABI of the form
\* cp3N without "t" or "m" suffix, whatever N is and whatever else the
\* published set contains.
C1_Abi3Satisfies ==
    \A i \in 1..Len(data) :
        \A target \in Range(data[i].targets), abi \in Range(data[i].abis) :
            (ABI3 \in PublishedFor(data[i], target) /\ IsCp3N(abi))
                => ~Emitted(data[i], target, abi)

\* C1's case: a finished resolution in which abi3 is published next to
\* another ABI and cp312 and cp39 were requested and not emitted, while
\* something else was.
C1_Witness ==
    /\ pc = "gathered"
    /\ build_infos # <<>>
    /\ \E i \in 1..Len(data) : \E target \in Range(data[i].targets) :
        /\ { ABI3, CP313T } \subseteq PublishedFor(data[i], target)
        /\ { CP312, CP39 } \subseteq Range(data[i].abis)
        /\ ~Emitted(data[i], target, CP312)
        /\ ~Emitted(data[i], target, CP39)

RECURSIVE Concat(_)
Concat(seqs) == IF seqs = <<>> THEN <<>> ELSE seqs[1] \o Concat(Tail(seqs))

\* A pair is unsatisfied: the ABI is not published for the key and the abi3
\* rule does not apply.
Unsatisfied(entry, target, abi) ==
    /\ abi \notin PublishedFor(entry, target)
    /\ ~(ABI3 \in PublishedFor(entry, target) /\ IsCp3N(abi))

\* The BuildInfos of the unsatisfied pairs of the entries, every target of an
\* entry with every ABI of it, entry by entry.
ExpectedGaps(entries) ==
    Concat([i \in 1..Len(entries) |->
        Concat([t \in 1..Len(entries[i].targets) |->
            Concat([a \in 1..Len(entries[i].abis) |->
                IF Unsatisfied(entries[i], entries[i].targets[t], entries[i].abis[a])
                THEN << InfoFor(entries[i], entries[i].targets[t], entries[i].abis[a]) >>
                ELSE <<>>])])])

\* C3: a finished resolution has emitted one BuildInfo, with the entry's
\* package, repository, revision and version, the target and the ABI, for
\* each unsatisfied (target, abi) pair of each entry, and nothing else.
C3_GapExactness == GatherDone => build_infos = ExpectedGaps(data)

\* C3's case: the entry with ABIs [cp310, cp311, cp313t] against the
\* published set {abi3} gave the one gap cp313t, and a later entry of the
\* matrix gave its gaps too.
C3_Witness ==
    /\ pc = "gathered"
    /\ Len(data) = 2
    /\ data[1].targets = << MANYLINUX_ARM7 >>
    /\ data[1].abis = << CP310, CP311, CP313T >>
    /\ PublishedFor(data[1], MANYLINUX_ARM7) = { ABI3 }
    /\ Len(build_infos) > 1
    /\ build_infos[1] = InfoFor(data[1], MANYLINUX_ARM7, CP313T)
    /\ build_infos[2].package # data[1].package

Families == { MANYLINUX, MUSLLINUX, MACOSX }

\* The text after the last underscore of a raw platform tag.
LastSegment(platform) == Split(platform, "_")[Len(Split(platform, "_"))]

\* The key a tag of a wheel belongs to: the wheel's package and version and
\* family + "_" + last segment.
CollapsedKey(wheel, tag, family) ==
    [package |-> wheel.package, version |-> wheel.version,
     target |-> family \o << "_" >> \o LastSegment(tag.platform)]

Wheels == Range(Chain(releases))

\* C8: the index expand_wheels returns holds, for every tag that begins with
\* a recognized family, the tag's ABI under the key family + "_" + (text after
\* the last underscore), so tags that differ only between the family and the
\* last segment share one published set; and it holds nothing else.
C8_NormalizationCollapse ==
    pc \in { "expanded", "gathered", "grouped" } =>
        /\ \A wheel \in Wheels : \A tag \in wheel.tags : \A family \in Families :
            StartsWith(tag.platform, family) =>
                /\ CollapsedKey(wheel, tag, family) \in DOMAIN provided
                /\ tag.abi \in provided[CollapsedKey(wheel, tag, family)]
        /\ \A key \in DOMAIN provided : \A abi \in provided[key] :
            \E wheel \in Wheels : \E tag \in wheel.tags : \E family \in Families :
                /\ StartsWith(tag.platform, family)
                /\ key = CollapsedKey(wheel, tag, family)
                /\ abi = tag.abi

\* C8's case: manylinux_2_17_armv7l, manylinux_2_31_armv7l and
\* manylinux2014_armv7l were all expanded, into the one key manylinux_armv7l
\* whose set has the ABIs of both wheels.
C8_Witness ==
    /\ pc = "expanded"
    /\ { ML_2_17_ARMV7L, ML_2_31_ARMV7L, ML2014_ARMV7L }
           \subseteq { tag.platform : tag \in UNION { w.tags : w \in Wheels } }
    /\ DOMAIN provided = { _SatisfactionKey(PKGA, << 1 >>, MANYLINUX_ARM7) }
    /\ provided[_SatisfactionKey(PKGA, << 1 >>, MANYLINUX_ARM7)] = { ABI3, CP313T }

\* A raw platform tag belongs to the family and the architecture of a
\* target: it begins with the target's text before the underscore and ends
\* with the target's text after it.
BelongsTo(platform, target) ==
    /\ StartsWith(platform, Split(target, "_")[1])
    /\ LastSegment(platform) = Split(target, "_")[2]

\* A wheel of the package and version of a build entry is published with an
\* ABI and a tag of the family and architecture of a target.
PublishedWheel(entry, target, abi) ==
    \E wheel \in Wheels : \E tag \in wheel.tags :
        /\ wheel.package = entry.package
        /\ wheel.version = VersionParse(entry.version)
        /\ tag.abi = abi
        /\ BelongsTo(tag.platform, target)

\* C20: every Target value is matched by _PLATFORM_RE and normalizes to
\* itself; the key expand_wheels stores for a tag of a target's family and
\* architecture is the key gather_build_infos looks up with the target's
\* raw string; and a finished resolution has emitted no BuildInfo for a
\* requested ABI that a wheel of the package and version publishes for the
\* target.
C20_LookupKeyConsistency ==
    /\ \A target \in Target :
        /\ _PLATFORM_RE(target) > 0
        /\ Normalize(target) = target
    /\ \A wheel \in Wheels : \A tag \in wheel.tags : \A target \in Target :
        BelongsTo(tag.platform, target) =>
            /\ Normalize(tag.platform) = target
            /\ Normalize(Normalize(tag.platform)) = Normalize(tag.platform)
            /\ pc \in { "expanded", "gathered", "grouped" } =>
                /\ _SatisfactionKey(wheel.package, wheel.version, target)
                       \in DOMAIN provided
                /\ tag.abi \in provided[_SatisfactionKey(wheel.package,
                                                         wheel.version, target)]
    /\ GatherDone =>
        \A i \in 1..Len(data) :
            \A target \in Range(data[i].targets) \cap Target,
               abi \in Range(data[i].abis) :
                PublishedWheel(data[i], target, abi)
                    => ~Emitted(data[i], target, abi)

\* C20's case: a wheel with a raw tag that is not the target's string is
\* published with a requested ABI, which was not emitted, while another ABI
\* of the same entry and target was.
C20_Witness ==
    /\ pc = "gathered"
    /\ \E i \in 1..Len(data) : \E target \in Range(data[i].targets) \cap Target :
        \E abi, other \in Range(data[i].abis) :
            /\ PublishedWheel(data[i], target, abi)
            /\ \A wheel \in Wheels : \A tag \in wheel.tags : tag.platform # target
            /\ ~Emitted(data[i], target, abi)
            /\ abi \notin { ABI3 }
            /\ Emitted(data[i], target, other)

\* Some tag of some wheel begins with no recognized family.
UnhandledPlatform ==
    \E wheel \in Wheels : \E tag \in wheel.tags :
        \A family \in Families : ~StartsWith(tag.platform, family)

\* C9: with a tag of an unrecognized platform among the wheels, expand_wheels
\* raises and leaves no index, and the build command ends there: no BuildInfo
\* is yielded and no plan is made, for any package.
C9_UnhandledPlatformFatal ==
    (UnhandledPlatform /\ pc \notin { "start", "read" }) =>
        /\ pc = "raised"
        /\ raised = "ValueError"
        /\ DOMAIN provided = {}
        /\ build_infos = <<>>
        /\ groups = <<>>

\* C9's case: a win_amd64 wheel of one package ended the command although
\* the matrix asks for builds of another package, which has a wheel too.
C9_Witness ==
    /\ pc = "raised"
    /\ UnhandledPlatform
    /\ DOMAIN releases = { PKGA, PKG_B }
    /\ \E i \in 1..Len(data) : data[i].package = PKGA

\* gather_build_infos has ended, with its last yield or with an exception
\* (one raised by expand_wheels included).
ResolutionEnded == pc \in { "gathered", "grouped", "raised" }

\* C11: once the resolution of a build matrix with an entry whose version
\* does not parse has ended, it has ended with an error and has yielded no
\* BuildInfo, not even for the entries before the invalid one.
C11_InvalidVersionFatal ==
    (ResolutionEnded
        /\ \E i \in 1..Len(data) : VersionParse(data[i].version) = InvalidVersion)
    => (pc = "raised" /\ build_infos = <<>>)

\* C11 as far as it goes: the resolution ends with an error, and what was
\* yielded before it belongs to the entries before the first invalid one.
C11_InvalidVersionRaises ==
    (ResolutionEnded
        /\ \E i \in 1..Len(data) : VersionParse(data[i].version) = InvalidVersion)
    => /\ pc = "raised"
       /\ LET first == CHOOSE i \in 1..Len(data) :
                          /\ VersionParse(data[i].version) = InvalidVersion
                          /\ \A j \in 1..(i - 1) :
                              VersionParse(data[j].version) # InvalidVersion
          IN  \A k \in 1..Len(build_infos) :
                  \E j \in 1..(first - 1) :
                      /\ build_infos[k].package = data[j].package
                      /\ build_infos[k].revision = data[j].revision

\* An entry names a target that is no Target member or an ABI that is no Abi
\* member.
UnknownMember(entry) ==
    \/ \E target \in Range(entry.targets) : target \notin Target
    \/ \E abi \in Range(entry.abis) : abi \notin Abi

\* C12: once the resolution of a build matrix with an entry that names an
\* unknown target or an unknown ABI has ended, it has ended with an error,
\* whatever the index holds.
C12_UnknownMemberFatal ==
    (ResolutionEnded /\ \E i \in 1..Len(data) : UnknownMember(data[i]))
        => pc = "raised"

\* C12 as far as it goes: the resolution ends without an error only if every
\* pair with an unknown target or ABI is satisfied by the index.
C12_UnknownUnsatisfiedFatal ==
    pc \in { "gathered", "grouped" } =>
        \A i \in 1..Len(data) :
            \A target \in Range(data[i].targets), abi \in Range(data[i].abis) :
                (target \notin Target \/ abi \notin Abi)
                    => Satisfied(abi, PublishedFor(data[i], target))

\* C13: once the resolution of a build matrix with an entry whose revision
\* gitutil.revision rejects has ended, it has ended with an error and has
\* yielded no BuildInfo; and no BuildInfo and no Build of a plan carries a
\* rejected revision.
C13_MalformedRevisionFatal ==
    /\ (ResolutionEnded
           /\ \E i \in 1..Len(data) : IsRaised(gitutil_revision(data[i].revision)))
       => (pc = "raised" /\ build_infos = <<>>)
    /\ \A k \in 1..Len(build_infos) :
        ~IsRaised(gitutil_revision(build_infos[k].revision))
    /\ \A g \in 1..Len(groups) : \A b \in 1..Len(groups[g].builds) :
        ~IsRaised(gitutil_revision(groups[g].builds[b].revision))

(***************************************************************************)
(* The claims about group_builds and run (SpecGroup)                       *)
(***************************************************************************)

\* group_builds has returned the plan.
GroupDone == pc = "grouped"

\* The passes of a plan with the fields of their group and build, in plan
\* order.
PlanPasses(plan) ==
    Concat([g \in 1..Len(plan) |->
        Concat([b \in 1..Len(plan[g].builds) |->
            [p \in 1..Len(plan[g].builds[b].passes) |->
                [package |-> plan[g].package, repository |-> plan[g].repository,
                 version |-> plan[g].builds[b].version,
                 revision |-> plan[g].builds[b].revision,
                 target |-> plan[g].builds[b].passes[p].target,
                 abis |-> plan[g].builds[b].passes[p].abis]]])])

\* The plan flattened back to (package, repository, version, revision,
\* target, ABI) units.
FlatPlan(plan) ==
    LET passes == PlanPasses(plan)
    IN  Concat([k \in 1..Len(passes) |->
            [a \in 1..Len(passes[k].abis) |->
                BuildInfo(passes[k].package, passes[k].repository,
                          passes[k].revision, passes[k].version,
                          passes[k].target, passes[k].abis[a])]])

GroupKey(u) == << u.package, u.repository >>

BuildKey(u) == << u.package, u.repository, u.version, u.revision >>

PassKey(u) == << u.package, u.repository, u.version, u.revision, u.target >>

\* C4: the plan flattened back to units holds every unit given to
\* group_builds, none twice and no other.
C4_NoDuplicationNoLoss ==
    GroupDone =>
        LET flat == FlatPlan(groups)
        IN  /\ Range(flat) = Range(build_infos)
            /\ \A i, j \in 1..Len(flat) : i # j => flat[i] # flat[j]

\* The number of builds of a plan.
NumBuilds(plan) == Len(Concat([g \in 1..Len(plan) |-> plan[g].builds]))

\* C5: the plan has one Group per (package, repository) of the input, one
\* Build per (package, repository, version, revision) and one Pass per
\* (package, repository, version, revision, target); a Pass holds the ABIs of
\* the units of its own tuple, all of them and no other.
C5_GroupingMinimality ==
    GroupDone =>
        LET passes == PlanPasses(groups)
            units == Range(build_infos)
        IN  /\ Len(groups) = Cardinality({ GroupKey(u) : u \in units })
            /\ NumBuilds(groups) = Cardinality({ BuildKey(u) : u \in units })
            /\ Len(passes) = Cardinality({ PassKey(u) : u \in units })
            /\ \A k \in 1..Len(passes) :
                Range(passes[k].abis)
                    = { u.abi : u \in { v \in units :
                                          PassKey(v) = PassKey(passes[k]) } }

\* C5's case: two units of one pass given with a unit of another revision
\* between them, grouped into one Group of two Builds.
C5_Witness ==
    /\ pc = "grouped"
    /\ Len(build_infos) = 3
    /\ PassKey(build_infos[1]) = PassKey(build_infos[3])
    /\ build_infos[1].abi # build_infos[3].abi
    /\ GroupKey(build_infos[2]) = GroupKey(build_infos[1])
    /\ build_infos[2].version = build_infos[1].version
    /\ build_infos[2].revision # build_infos[1].revision
    /\ Len(groups) = 1
    /\ Len(groups[1].builds) = 2

\* (a1, a2) < (b1, b2) for pairs of strings
PairLt(a1, a2, b1, b2) == StrLt(a1, b1) \/ (a1 = b1 /\ StrLt(a2, b2))

\* The plan is in order: Groups ascending by (package, repository), Builds
\* by (version, revision), Passes by target, ABIs by the ABI order.
Ordered(plan) ==
    /\ \A g \in 1..(Len(plan) - 1) :
        PairLt(plan[g].package, plan[g].repository,
               plan[g + 1].package, plan[g + 1].repository)
    /\ \A g \in 1..Len(plan) :
        LET blds == plan[g].builds
        IN  /\ \A b \in 1..(Len(blds) - 1) :
                \/ VersionLt(blds[b].version, blds[b + 1].version)
                \/ /\ blds[b].version = blds[b + 1].version
                   /\ StrLt(blds[b].revision, blds[b + 1].revision)
            /\ \A b \in 1..Len(blds) :
                LET passes == blds[b].passes
                IN  /\ \A p \in 1..(Len(passes) - 1) :
                        StrLt(passes[p].target, passes[p + 1].target)
                    /\ \A p \in 1..Len(passes) :
                        \A a \in 1..(Len(passes[p].abis) - 1) :
                            ~AbiLt(passes[p].abis[a + 1], passes[p].abis[a])

\* C6: the plan is in order, and it is the plan of every permutation of the
\* input.
C6_PlanOrdering ==
    GroupDone =>
        /\ Ordered(groups)
        /\ \A f \in Permutations(1..Len(build_infos)) :
            group_builds([i \in 1..Len(build_infos) |-> build_infos[f[i]]]) = groups

\* C6's case: the input came in descending order, two units of one pass with
\* their ABIs reversed and before them a unit of a later build.
C6_Witness ==
    /\ pc = "grouped"
    /\ Len(build_infos) = 3
    /\ SortKeyLt(build_infos[2], build_infos[1])
    /\ PassKey(build_infos[2]) = PassKey(build_infos[3])
    /\ AbiLt(build_infos[3].abi, build_infos[2].abi)
    /\ Len(groups) = 1
    /\ Len(groups[1].builds) = 2

\* C7: every Group of the plan has a Build, every Build a Pass and every Pass
\* an ABI; no BuildInfo gives the empty plan, for which run only prints
\* "Nothing to build!".
C7_PlanNonEmpty ==
    /\ pc \in { "grouped", "done" } =>
        /\ \A g \in 1..Len(groups) :
            /\ groups[g].builds # <<>>
            /\ \A b \in 1..Len(groups[g].builds) :
                /\ groups[g].builds[b].passes # <<>>
                /\ \A p \in 1..Len(groups[g].builds[b].passes) :
                    groups[g].builds[b].passes[p].abis # <<>>
        /\ (build_infos = <<>> <=> groups = <<>>)
    /\ (pc = "done" /\ groups = <<>>) =>
        /\ Effects(log) = <<>>
        /\ Stdout(log) = << Entry("Nothing to build!", <<>>, <<>>) >>

\* C7's case: run has ended on the plan of no BuildInfo.
C7_Witness == pc = "done" /\ build_infos = <<>> /\ Len(log) = 1

(***************************************************************************)
(* The claim about loading the release feed (SpecFeed)                     *)
(***************************************************************************)

\* The asset is one the loaders take up: its name ends in ".whl".
Considered(asset) == EndsWith(asset.name, WHL)

\* The asset is a wheel with a recognized digest algorithm and a well-formed
\* wheel file name.
WellFormed(asset) ==
    /\ Algorithm(asset.digest) \in algorithms_guaranteed
    /\ ~IsRaised(parse_wheel_filename(asset.name))

\* The asset is one the Wheel constructor accepts, with a recognized digest
\* algorithm.
Constructible(asset) ==
    /\ Algorithm(asset.digest) \in algorithms_guaranteed
    /\ ~IsRaised(Wheel(asset.name))

\* The outcome of a load has the asset's wheel under its package.
Loaded(out, asset) ==
    \E package \in DOMAIN out.packages :
        \E k \in 1..Len(out.packages[package]) :
            out.packages[package][k].name = asset.name

\* A load that ran to its end, skipped and reported every bad asset it took
\* up and kept every well-formed wheel of the feed.
Recovered(out) ==
    /\ out.raised = "none"
    /\ \A asset \in Range(Assets(feed)) :
        /\ WellFormed(asset) <=> Loaded(out, asset)
        /\ (Considered(asset) /\ ~WellFormed(asset))
               => asset.name \in Range(out.stderr)

\* C10: each of the two loaders, once it has run on a feed, has skipped and
\* reported the assets with an unrecognized digest algorithm or a malformed
\* wheel file name and has loaded every other wheel of the feed; no asset
\* aborts the load.
C10_BadAssetNeverAborts ==
    /\ packages # NotRun => Recovered(packages)
    /\ rpackages # NotRun => Recovered(rpackages)

\* C10 as far as releases.parse goes: it ends without an exception on every
\* feed, loads the wheels the Wheel constructor accepts and reports every
\* other asset it took up.
C10_ParseRecovers ==
    packages # NotRun =>
        /\ packages.raised = "none"
        /\ \A asset \in Range(Assets(feed)) :
            /\ Constructible(asset) <=> Loaded(packages, asset)
            /\ (Considered(asset) /\ ~Constructible(asset))
                   => asset.name \in Range(packages.stderr)

\* C10 does not hold of releases.parse either: a well-formed wheel whose
\* interpreter tag has a single digit ("py3") is skipped, because _sort_tag
\* raises ValueError for it.
C10_ParseLoadsWellFormed ==
    packages # NotRun =>
        \A asset \in Range(Assets(feed)) :
            WellFormed(asset) => Loaded(packages, asset)

\* The members of Abi in the order the claim gives.
AbiOrder == << CP310, CP311, CP312, CP313, CP313T, CP314, CP314T >>

MaxAbis == 3

\* The lists of at most MaxAbis members of Abi.
AbiListsUpTo == UNION { [1..n -> Abi] : n \in 0..MaxAbis }

\* C19: Abi.__lt__ is a strict total order on the members of Abi, the one of
\* cp310 < cp311 < cp312 < cp313 < cp313t < cp314 < cp314t, in which a
\* variant comes directly after its unsuffixed ABI; sorting a sorted ABI list
\* gives the same list, for every list of at most MaxAbis members and for the
\* ABI list of every pass of the plan, and sorting the sorted BuildInfos, or
\* grouping them, gives the same list and the same plan.  The order itself
\* does not depend on the state and is checked where group_builds starts on
\* the empty input.
C19_AbiTotalOrder ==
    /\ (pc = "gathered" /\ build_infos = <<>>) =>
        /\ Range(AbiOrder) = Abi
        /\ \A i, j \in 1..Len(AbiOrder) :
            AbiLt(AbiOrder[i], AbiOrder[j]) <=> i < j
        /\ \A abis \in AbiListsUpTo :
            /\ SortedAbis(SortedAbis(abis)) = SortedAbis(abis)
            /\ \A k \in 1..(Len(abis) - 1) :
                ~AbiLt(SortedAbis(abis)[k + 1], SortedAbis(abis)[k])
    /\ GroupDone =>
        /\ \A k \in 1..Len(PassesOf(groups)) :
            SortedAbis(PassesOf(groups)[k].abis) = PassesOf(groups)[k].abis
        /\ SortedInfos(SortedInfos(build_infos)) = SortedInfos(build_infos)
        /\ group_builds(SortedInfos(build_infos)) = groups

\* C19's case: cp313t, cp311 and cp310 came in this order for one pass and
\* the pass has them as cp310, cp311, cp313t.
C19_Witness ==
    /\ pc = "grouped"
    /\ Len(build_infos) = 3
    /\ << build_infos[1].abi, build_infos[2].abi, build_infos[3].abi >>
           = << CP313T, CP311, CP310 >>
    /\ Len(PassesOf(groups)) = 1
    /\ PassesOf(groups)[1].abis = << CP310, CP311, CP313T >>

\* What run reports of a plan that is not empty: the passes in plan order
\* under their builds and groups, each as built or as skipped.
ExpectedReport(plan, hosts) ==
    << Entry("Build passes to be performed", <<>>, <<>>) >>
    \o Concat([g \in 1..Len(plan) |->
        << Entry("Building", plan[g].package, <<>>) >>
        \o Concat([b \in 1..Len(plan[g].builds) |->
            << Entry("=> Building", plan[g].builds[b].revision, <<>>) >>
            \o [p \in 1..Len(plan[g].builds[b].passes) |->
                   Entry(IF plan[g].builds[b].passes[p].target \in hosts
                         THEN "Build" ELSE "Skip (non native)",
                         plan[g].builds[b].passes[p].target,
                         plan[g].builds[b].passes[p].abis)]])])

\* C17: a run with --dry-run has performed no external action, whatever the
\* plan: no folder created, nothing cloned, fetched or checked out, no build
\* tool invoked; it has printed the groups, builds and passes of the plan, or
\* "Nothing to build!" for the empty plan.
C17_DryRunNoEffects ==
    (pc = "done" /\ dry_run) =>
        /\ Effects(log) = <<>>
        /\ raised = "none"
        /\ log = IF groups = <<>>
                 THEN << Entry("Nothing to build!", <<>>, <<>>) >>
                 ELSE ExpectedReport(groups, native)

\* C17's case: a dry run of a plan with a pass the host would build and a
\* pass it would skip.
C17_Witness ==
    /\ pc = "done"
    /\ dry_run
    /\ \E k \in 1..Len(log) : log[k].op = "Build"
    /\ \E k \in 1..Len(log) : log[k].op = "Skip (non native)"
    /\ Len(PassesOf(groups)) = 3

\* The invocation of the build tool for a pass: CIBW_BUILD holds one
\* identifier per ABI of the pass.
ToolCall(pass) ==
    Entry("cibuildwheel", pass.target,
          [i \in 1..Len(pass.abis) |-> pass.abis[i] \o << "-" >> \o pass.target])

\* The external actions of a complete run of a plan in which the passes with
\* a target of built are built: the two folders, then group by group the
\* clone or fetch, build by build the checkout, pass by pass the build tool.
ExpectedEffects(plan, built) ==
    << Entry("create_ignored_folder", REPOS, <<>>),
       Entry("create_ignored_folder", WHEELS, <<>>) >>
    \o Concat([g \in 1..Len(plan) |->
        << Entry("clone_or_fetch", plan[g].repository, <<>>) >>
        \o Concat([b \in 1..Len(plan[g].builds) |->
            << Entry("checkout", plan[g].builds[b].revision, <<>>) >>
            \o Concat([p \in 1..Len(plan[g].builds[b].passes) |->
                   IF plan[g].builds[b].passes[p].target \in built
                   THEN << ToolCall(plan[g].builds[b].passes[p]) >>
                   ELSE <<>>])])])

IsPrefix(a, b) == Len(a) <= Len(b) /\ a = SubSeq(b, 1, Len(a))

\* Some pass of the plan has a target the host is native for.
SomeNative(plan, hosts) ==
    \E k \in 1..Len(PassesOf(plan)) : PassesOf(plan)[k].target \in hosts

Permuted(f) ==
    << [assets |-> [i \in 1..Len(feed[1].assets) |-> feed[1].assets[f[i]]]] >>

\* C14: on the pages render_html wrote, the files of a package are the
\* wheels loaded for it in non-increasing order of version, and the latest
\* version shown for the package is the version of the first of them, which
\* no wheel of the package exceeds and which every order of the feed gives.
C14_LatestVersion ==
    html.done =>
        /\ DOMAIN html.pages = DOMAIN rpackages.packages
        /\ \A package \in DOMAIN html.pages :
            LET files == html.pages[package].files
                latest == html.pages[package].latest
            IN  /\ Len(files) = Len(rpackages.packages[package])
                /\ Range(files) = Range(rpackages.packages[package])
                /\ \A k \in 1..(Len(files) - 1) :
                    ~VersionLt(files[k].version, files[k + 1].version)
                /\ latest = files[1].version
                /\ \A wheel \in Range(files) : ~VersionLt(latest, wheel.version)
                /\ \A f \in Permutations(1..Len(feed[1].assets)) :
                    render_html(render_load_from_github_api(Permuted(f)).packages)
                        [package].latest = latest

\* C14's case: the wheels of the versions 1.0.0, 2.0.0 and 1.9.0 came in
\* this order and are listed as 2.0.0, 1.9.0, 1.0.0, with 2.0.0 as latest.
C14_Witness ==
    /\ html.done
    /\ Len(feed[1].assets) = 3
    /\ LET loaded == rpackages.packages[PKGA]
       IN  /\ Len(loaded) = 3
           /\ << loaded[1].version, loaded[2].version, loaded[3].version >>
                  = << << 1 >>, << 2 >>, << 1, 9 >> >>
    /\ LET files == html.pages[PKGA].files
       IN  << files[1].version, files[2].version, files[3].version >>
               = << << 2 >>, << 1, 9 >>, << 1 >> >>
    /\ html.pages[PKGA].latest = << 2 >>

\* No two wheels of the feed have the same package, version and tag keys.
DistinctKeys ==
    \A x, y \in LoadedWheels(rpackages) :
        (x.package = y.package /\ x.version = y.version
            /\ RenderTagKeys(x) = RenderTagKeys(y)) => Is(x, y)

\* C15: two wheels of one package and one version with different tag keys
\* are ordered by their tag keys, and the pages render_html wrote for a feed
\* whose wheels all differ in their keys are the pages of every order of the
\* feed.
C15_TieBreak ==
    html.done =>
        /\ \A x, y \in LoadedWheels(rpackages) :
            (x.package = y.package /\ x.version = y.version
                /\ RenderTagKeys(x) # RenderTagKeys(y))
            => (RenderWheelLt(x, y)
                    <=> KeysLt(RenderTagKeys(x), RenderTagKeys(y)))
        /\ DistinctKeys =>
            \A f \in Permutations(1..Len(feed[1].assets)) :
                render_html(render_load_from_github_api(Permuted(f)).packages)
                    = html.pages

\* C15 for releases.py: a comparison of two wheels of one package and one
\* version was decided by their tag keys.
C15_ReleasesTieBreak ==
    (cmp.done /\ cmp.self.package = cmp.other.package
        /\ cmp.self.version = cmp.other.version)
    => (cmp.wheel_lt <=> KeysLt(TagKeys(cmp.self), TagKeys(cmp.other)))

(***************************************************************************)
(* The claim about the comparison of wheels (SpecOrder)                    *)
(***************************************************************************)

\* Lt is a strict weak ordering of S, Same telling the elements with equal
\* keys: irreflexive, asymmetric, transitive, and with a transitive
\* incomparability.
StrictWeak(Lt(_, _), Same(_, _), S) ==
    /\ \A x, y \in S : Same(x, y) => ~Lt(x, y)
    /\ \A x, y \in S : Lt(x, y) => ~Lt(y, x)
    /\ \A x, y, z \in S : (Lt(x, y) /\ Lt(y, z)) => Lt(x, z)
    /\ \A x, y, z \in S :
        (~Lt(x, y) /\ ~Lt(y, x) /\ ~Lt(y, z) /\ ~Lt(z, y))
            => (~Lt(x, z) /\ ~Lt(z, x))

SameVersion(x, y) == x.version = y.version

SameKey(x, y) ==
    x.package = y.package /\ x.version = y.version /\ TagKeys(x) = TagKeys(y)

RenderSameKey(x, y) ==
    /\ x.package = y.package /\ x.version = y.version
    /\ RenderTagKeys(x) = RenderTagKeys(y)

\* C16: the "<" of the wheels and the "<" of the wrappers of their versions,
\* of releases.py and of render.py, are strict weak orderings of the wheels
\* loaded from the feed, and no comparison of two wheels with equal keys, or
\* of two wrappers of equal versions, has answered true.
C16_StrictWeakOrdering ==
    packages # NotRun =>
        /\ StrictWeak(WheelLt, SameKey, LoadedWheels(packages))
        /\ StrictWeak(RenderWheelLt, RenderSameKey, LoadedWheels(packages))
        /\ StrictWeak(RenderInverseSorterLt, SameVersion, LoadedWheels(packages))
        /\ StrictWeak(InverseSorterLt, SameVersion, LoadedWheels(packages))
        /\ (cmp.done /\ SameKey(cmp.self, cmp.other)) => ~cmp.wheel_lt
        /\ (cmp.done /\ SameVersion(cmp.self, cmp.other)) => ~cmp.inverse_lt

\* C16 as far as it goes: all but the "<" of the wrappers of releases.py.
C16_WheelOrderings ==
    packages # NotRun =>
        /\ StrictWeak(WheelLt, SameKey, LoadedWheels(packages))
        /\ StrictWeak(RenderWheelLt, RenderSameKey, LoadedWheels(packages))
        /\ StrictWeak(RenderInverseSorterLt, SameVersion, LoadedWheels(packages))
        /\ (cmp.done /\ SameKey(cmp.self, cmp.other)) => ~cmp.wheel_lt

=============================================================================
